---- MODULE Spec2Model ----
(***************************************************************************)
(* Model of src/trayectoria.py: the class Trayectoria (a buffered corridor *)
(* around a route) and its query and derived operations.                   *)
(*                                                                         *)
(* Numbers.  Coordinates and widths are fixed-point integers; a Python     *)
(* float is the integer it denotes in these units.  A point is a pair      *)
(* <<x, y>>, a list of points a sequence of pairs.                         *)
(*                                                                         *)
(* Python values.  Every value the program hands around carries the name   *)
(* of its Python class in the field "clase", so that isinstance() is a     *)
(* comparison of that field.  A call ends either in a returned value       *)
(* (estado = "ok") or in a raised exception (estado = "error"); the        *)
(* exception is named by its Python class and the place that raises it.    *)
(*                                                                         *)
(* Geometry kernel.  shapely's polygons are opaque to the program.  A      *)
(* region is modelled by the set of probe points (Sondas) it contains and  *)
(* by whether its ring has been resampled by the spline smoothing; the     *)
(* exact shape of the resampled ring is not modelled.                      *)
(***************************************************************************)
EXTENDS Integers, Sequences, FiniteSets, TLC

VARIABLES rutas, llamada, resultado

vars == <<rutas, llamada, resultado>>

---------------------------------------------------------------------------
(* Bounds and input universes *)

\* longest list of points handed to the constructor, when two corridors are
\* constructed and when one is
MaxLen == 2
MaxLenUna == 3
\* longest route handed to the constructor by ConstruirCiclo
MaxLenCiclo == 4
\* longest list of points handed to a query
MaxPts == 3
\* longest list of corridors handed to a query
MaxRutas == 2
\* largest count handed to interpolate_points
MaxN == 3

\* the names under which the harness holds constructed corridors
Nombres == {"a", "b"}

\* route points: a 3-4-5 triangle (scaled by 2), so that every segment
\* between two of them has an integer length
Puntos == {<<0, 0>>, <<8, 0>>, <<8, 6>>}

\* (ancho_buffer, puntos_suavizado) pairs handed to the constructor
Parametros == {<<3, 50>>, <<5, 20>>}

\* probe points on which a region's extension is recorded; none of them is
\* at distance exactly 1, 3 or 5 from a point or segment of Puntos; <<6, 2>> is
\* the incenter of the triangle of Puntos, at distance 2 from its three sides
Sondas == Puntos \cup {<<4, 0>>, <<4, 4>>, <<0, 6>>, <<6, 2>>, <<20, 20>>}

\* default of the constructor's parameter puntos_suavizado
PuntosSuavizadoDefecto == 50

---------------------------------------------------------------------------
(* Sequences *)

SeqsHasta(S, n) == UNION {[1..k -> S] : k \in 0..n}

Reverse(s) == [i \in 1..Len(s) |-> s[Len(s) + 1 - i]]

Rango(s) == {s[i] : i \in 1..Len(s)}

\* the elements of s that are in conj, in the order of s
RECURSIVE Filtrar(_, _)
Filtrar(s, conj) ==
  IF s = <<>> THEN <<>>
  ELSE IF Head(s) \in conj THEN <<Head(s)>> \o Filtrar(Tail(s), conj)
       ELSE Filtrar(Tail(s), conj)

\* integer square root (floor)
RECURSIVE IsqrtEntre(_, _, _)
IsqrtEntre(n, lo, hi) ==
  IF hi - lo <= 1 THEN lo
  ELSE LET mid == (lo + hi) \div 2
       IN  IF mid * mid <= n THEN IsqrtEntre(n, mid, hi) ELSE IsqrtEntre(n, lo, mid)
Isqrt(n) == IsqrtEntre(n, 0, n + 1)

---------------------------------------------------------------------------
(* Python values *)

Ok(clase, v) == [estado |-> "ok", clase |-> clase, valor |-> v]
Err(e) == [estado |-> "error", clase |-> "Exception", error |-> e]

\* the exceptions the class raises, by Python class and raising place
ErrCoordenadas == "ValueError: No se pudo procesar las coordenadas"
ErrIndice == "IndexError: list index out of range"
ErrSumar == "TypeError: No se puede sumar Trayectoria"
ErrRestar == "TypeError: No se puede restar Trayectoria"
ErrPunto == "ValueError: Formato de punto no valido"
ErrModo == "ValueError: Modo no reconocido"
ErrRutas == "ValueError: Todas las rutas deben ser instancias de Trayectoria"
ErrSlice == "TypeError: slice indices must be integers"
ErrLineString == "GEOSException: point array must contain 0 or >1 elements"

\* a value that is no Trayectoria
None == [clase |-> "NoneType"]
OtroObjeto == [clase |-> "list", valor |-> <<<<0, 0>>>>]

IsTrayectoria(v) == v.clase = "Trayectoria"

---------------------------------------------------------------------------
(* Constructor *)

\* inputs of the constructor, by the shape _procesar_coordenadas tells apart
ListaPares(pts) == [forma |-> "lista_pares", datos |-> pts]
ListaPlana(nums) == [forma |-> "lista_plana", datos |-> nums]
NoProcesable == [forma |-> "otro", datos |-> <<>>]

RECURSIVE Aplanar(_)
Aplanar(pts) ==
  IF pts = <<>> THEN <<>> ELSE <<Head(pts)[1], Head(pts)[2]>> \o Aplanar(Tail(pts))

\* list(zip(c[::2], c[1::2])): a trailing odd element is dropped
Zip2(nums) == [i \in 1..(Len(nums) \div 2) |-> <<nums[2 * i - 1], nums[2 * i]>>]

_procesar_coordenadas(coordenadas) ==
  CASE coordenadas.forma = "lista_pares" -> Ok("list", coordenadas.datos)
    [] coordenadas.forma = "lista_plana" -> Ok("list", Zip2(coordenadas.datos))
    [] OTHER -> Err(ErrCoordenadas)

\* squared distance between two points
Dist2(p, q) == (p[1] - q[1]) * (p[1] - q[1]) + (p[2] - q[2]) * (p[2] - q[2])

\* Point(p).buffer(w) contains q
EnDisco(p, w, q) == Dist2(p, q) < w * w

\* the offset quadrilateral of the segment p1 -> p2 contains q; a segment of
\* length 0 has no normal and contributes no quadrilateral
EnSegmento(p1, p2, w, q) ==
  LET dx == p2[1] - p1[1]
      dy == p2[2] - p1[2]
      vx == q[1] - p1[1]
      vy == q[2] - p1[2]
      dd == dx * dx + dy * dy
      dot == vx * dx + vy * dy
      cross == vx * dy - vy * dx
  IN  /\ dd # 0
      /\ 0 <= dot /\ dot <= dd
      /\ cross * cross < w * w * dd

\* unary_union(poligonos) contains q
EnUnion(coordenadas, w, q) ==
  \/ \E i \in 1..Len(coordenadas) : EnDisco(coordenadas[i], w, q)
  \/ \E i \in 1..(Len(coordenadas) - 1) :
       EnSegmento(coordenadas[i], coordenadas[i + 1], w, q)

\* squared distance from q to the segment p1 -> p2, rounded down
DistSegmento2(p1, p2, q) ==
  LET dx == p2[1] - p1[1]
      dy == p2[2] - p1[2]
      vx == q[1] - p1[1]
      vy == q[2] - p1[2]
      dd == dx * dx + dy * dy
      dot == vx * dx + vy * dy
      cross == vx * dy - vy * dx
  IN  IF dd = 0 \/ dot <= 0 THEN Dist2(p1, q)
      ELSE IF dot >= dd THEN Dist2(p2, q)
      ELSE (cross * cross) \div dd

Min(conj) == CHOOSE m \in conj : \A n \in conj : m <= n
Max(conj) == CHOOSE m \in conj : \A n \in conj : m >= n

\* distance from q to the polyline through coordenadas (one point at least)
DistPolilinea(coordenadas, q) ==
  Isqrt(Min({Dist2(coordenadas[i], q) : i \in 1..Len(coordenadas)}
              \cup {DistSegmento2(coordenadas[i], coordenadas[i + 1], q) :
                      i \in 1..(Len(coordenadas) - 1)}))

\* distance from q to the boundary of the union of the disks and quadrilaterals,
\* which is the set of points at distance ancho_buffer from the polyline
DistBorde(coordenadas, w, q) ==
  LET d == DistPolilinea(coordenadas, q) IN IF d < w THEN w - d ELSE d - w

\* the distinct segments of the route, each the set of its two end points
Segmentos(coordenadas) ==
  {{coordenadas[i], coordenadas[i + 1]} : i \in 1..(Len(coordenadas) - 1)}
    \ {{p} : p \in Rango(coordenadas)}

\* the segments on closed loops of the route: what is left when the segments
\* with a free end are taken away, again and again
RECURSIVE Ciclos(_)
Ciclos(segs) ==
  LET libres == {s \in segs : \E p \in s : \A t \in segs \ {s} : p \notin t}
  IN  IF libres = {} THEN segs ELSE Ciclos(segs \ libres)

\* the ray from q to the right crosses the segment s
Cruza(s, q) ==
  \E p1 \in s, p2 \in s :
    /\ p1[2] > q[2] /\ p2[2] <= q[2]
    /\ (p1[1] - q[1]) * (p2[2] - p1[2]) + (q[2] - p1[2]) * (p2[1] - p1[1]) < 0

\* q is enclosed by a closed loop of the route (the loops of the routes built
\* from Puntos are the one triangle); a loop takes four points at least
Dentro(coordenadas, q) ==
  /\ Len(coordenadas) >= 4
  /\ Cardinality({s \in Ciclos(Segmentos(coordenadas)) : Cruza(s, q)}) % 2 = 1

\* unary_union(poligonos), a Polygon since consecutive disks are joined by
\* their quadrilateral: celdas = the probe points it contains, huecos = the
\* probe points in its holes (interior rings), which are the points a closed
\* loop of the route encloses and the disks and quadrilaterals do not reach
unary_union(coordenadas, w) ==
  [tipo |-> "Polygon",
   celdas |-> {q \in Sondas : EnUnion(coordenadas, w, q)},
   huecos |-> {q \in Sondas : ~EnUnion(coordenadas, w, q) /\ Dentro(coordenadas, q)}]

\* distance from q to the exterior ring of the union: that ring runs at
\* distance ancho_buffer outside the route and the loops it closes
DistExterior(coordenadas, w, q) ==
  IF Dentro(coordenadas, q) THEN w + DistPolilinea(coordenadas, q)
  ELSE DistBorde(coordenadas, w, q)

\* a shapely Polygon, as far as the program's queries can tell regions apart:
\* celdas = the probe points it contains, huecos = the probe points in its holes,
\* borde = their distance to its boundary, suavizado / muestras = whether it is
\* Polygon(contorno_suavizado), the polygon of the exterior ring alone, resampled
\* at muestras points, or the polygon the kernel returned
Region(suavizado, muestras, coordenadas, w) ==
  LET area_buffer == unary_union(coordenadas, w)
  IN  [tipo |-> "Polygon", suavizado |-> suavizado, muestras |-> muestras,
       celdas |-> IF suavizado THEN area_buffer.celdas \cup area_buffer.huecos
                  ELSE area_buffer.celdas,
       huecos |-> IF suavizado THEN {} ELSE area_buffer.huecos,
       borde |-> [q \in Sondas |->
                    IF suavizado THEN DistExterior(coordenadas, w, q)
                    ELSE DistBorde(coordenadas, w, q)]]

_crear_area_buffer_suavizado(coordenadas, ancho_buffer, puntos_suavizado) ==
  IF Len(coordenadas) < 2
  THEN IF coordenadas = <<>>
       THEN Err(ErrIndice)
       ELSE Ok("Polygon", Region(FALSE, 0, <<coordenadas[1]>>, ancho_buffer))
  ELSE IF unary_union(coordenadas, ancho_buffer).tipo = "Polygon"
       THEN Ok("Polygon", Region(TRUE, puntos_suavizado, coordenadas, ancho_buffer))
       ELSE Ok("MultiPolygon", Region(FALSE, 0, coordenadas, ancho_buffer))

\* Trayectoria(coordenadas, ancho_buffer, puntos_suavizado)
__init__(coordenadas, ancho_buffer, puntos_suavizado) ==
  LET procesadas == _procesar_coordenadas(coordenadas)
  IN  IF procesadas.estado = "error" THEN procesadas
      ELSE LET almacenadas == Reverse(procesadas.valor)
               area == _crear_area_buffer_suavizado(almacenadas, ancho_buffer,
                                                    puntos_suavizado)
           IN  IF area.estado = "error" THEN area
               ELSE Ok("Trayectoria",
                       [clase |-> "Trayectoria",
                        coordenadas |-> almacenadas,
                        ancho_buffer |-> ancho_buffer,
                        puntos_suavizado |-> puntos_suavizado,
                        area |-> area.valor])

---------------------------------------------------------------------------
(* State *)

\* no call under way
Ninguna == [op |-> "ninguna", encadenada |-> FALSE]

Init ==
  /\ rutas = [n \in Nombres |-> None]
  /\ llamada = Ninguna
  /\ resultado = Ok("NoneType", None)

\* the caller is between two calls
Libre == llamada.op = "ninguna"

Construidas == {rutas[n] : n \in {m \in Nombres : IsTrayectoria(rutas[m])}}

EntradasConstructor ==
  {ListaPares(s) : s \in SeqsHasta(Puntos, MaxLen)}
    \cup {ListaPlana(Aplanar(s)) : s \in SeqsHasta(Puntos, 1) \ {<<>>}}
    \cup {ListaPlana(Append(Aplanar(s), 0)) : s \in SeqsHasta(Puntos, 1)}
    \cup {NoProcesable}

\* n = Trayectoria(entrada, ancho, puntos), for a name n among nombres, an
\* entrada among entradas and an <<ancho, puntos>> among parametros
ConstruirDe(nombres, entradas, parametros) ==
  /\ Libre
  /\ \E n \in {m \in nombres : ~IsTrayectoria(rutas[m])},
        entrada \in entradas, par \in parametros :
    /\ LET r == __init__(entrada, par[1], par[2])
       IN  /\ llamada' = [op |-> "__init__", coordenadas |-> entrada,
                          ancho_buffer |-> par[1], puntos_suavizado |-> par[2],
                          encadenada |-> FALSE]
           /\ resultado' = r
           /\ rutas' = IF r.estado = "ok" THEN [rutas EXCEPT ![n] = r.valor]
                       ELSE rutas

Construir == ConstruirDe(Nombres, EntradasConstructor, Parametros)

\* the same, of one corridor only and of longer routes
ConstruirUna ==
  ConstruirDe({"a"},
              {ListaPares(s) : s \in SeqsHasta(Puntos, MaxLenUna)} \cup {NoProcesable},
              Parametros)

\* the same, of routes long enough to close a loop and of a width that leaves
\* the inside of the loop uncovered
ParametrosCiclo == {<<1, PuntosSuavizadoDefecto>>, <<3, 20>>}

ConstruirCiclo ==
  ConstruirDe({"a"}, {ListaPares(s) : s \in SeqsHasta(Puntos, MaxLenCiclo)},
              ParametrosCiclo)

\* the caller has looked at the outcome of the call and goes on
Retornar ==
  /\ ~Libre
  /\ llamada' = Ninguna
  /\ resultado' = Ok("NoneType", None)
  /\ UNCHANGED rutas

---------------------------------------------------------------------------
(* Receivers and operands *)

\* the corridors a call can be made on: the constructed ones and, for one
\* step of chaining (a.op(b).op(c)), the corridor the previous call returned
Encadenable ==
  /\ ~Libre
  /\ resultado.estado = "ok"
  /\ resultado.clase = "Trayectoria"
  /\ llamada.op # "__init__"
  /\ ~llamada.encadenada

\* <<corridor, whether it is the result of the previous call, that call>>
Receptores ==
  IF Libre THEN {<<c, FALSE, Ninguna>> : c \in Construidas}
  ELSE IF Encadenable THEN {<<resultado.valor, TRUE, llamada>>}
  ELSE {}

\* what a caller can hand over where a Trayectoria is expected
Operandos == Construidas \cup {OtroObjeto}

---------------------------------------------------------------------------
(* Algebra: __add__, __sub__, __eq__, get_differences *)

\* sorted(set(l), key=lambda p: p[0]): the orders a stable sort by x can give
\* to the elements of a set, whose iteration order Python leaves open
SortedSetByX(conj) ==
  {s \in [1..Cardinality(conj) -> conj] :
     /\ \A i, j \in 1..Cardinality(conj) : i # j => s[i] # s[j]
     /\ \A i, j \in 1..Cardinality(conj) : i < j => s[i][1] <= s[j][1]}

\* __add__ without the isinstance guard: any other operand leaves self as it is
__add__sin_guardia(self, other) ==
  IF ~IsTrayectoria(other)
  THEN {Ok("Trayectoria", self)}
  ELSE {__init__(ListaPares(coordenadas_combinadas), self.ancho_buffer,
                 PuntosSuavizadoDefecto) :
          coordenadas_combinadas \in
            SortedSetByX(Rango(self.coordenadas \o other.coordenadas))}

\* the results self + other can have
__add__(self, other) ==
  IF ~IsTrayectoria(other)
  THEN {Err(ErrSumar)}
  ELSE {__init__(ListaPares(coordenadas_combinadas), self.ancho_buffer,
                 PuntosSuavizadoDefecto) :
          coordenadas_combinadas \in
            SortedSetByX(Rango(self.coordenadas \o other.coordenadas))}

\* __sub__ with the membership test inverted: it keeps the common points
__sub__comunes(self, other) ==
  IF ~IsTrayectoria(other)
  THEN Err(ErrRestar)
  ELSE LET coordenadas_restantes ==
             Filtrar(self.coordenadas, Rango(other.coordenadas))
       IN  __init__(ListaPares(coordenadas_restantes), self.ancho_buffer,
                    PuntosSuavizadoDefecto)

__sub__(self, other) ==
  IF ~IsTrayectoria(other)
  THEN Err(ErrRestar)
  ELSE LET coordenadas_restantes ==
             Filtrar(self.coordenadas, Rango(self.coordenadas) \ Rango(other.coordenadas))
       IN  __init__(ListaPares(coordenadas_restantes), self.ancho_buffer,
                    PuntosSuavizadoDefecto)

__eq__(self, other) ==
  IF ~IsTrayectoria(other)
  THEN Ok("bool", FALSE)
  ELSE Ok("bool", /\ self.coordenadas = other.coordenadas
                  /\ self.ancho_buffer = other.ancho_buffer
                  /\ self.puntos_suavizado = other.puntos_suavizado)

Abs(n) == IF n < 0 THEN -n ELSE n

\* _diferencia_coordenadas comparing the two lists, not the two sets
_diferencia_coordenadas_ordenada(self, other) ==
  IF self.coordenadas # other.coordenadas THEN {"coordenadas"} ELSE {}

\* lines 273-284: the key "coordenadas" of the differences, if it is set
_diferencia_coordenadas(self, other) ==
  LET coords_self == Rango(self.coordenadas)
      coords_other == Rango(other.coordenadas)
      unique_self == coords_self \ coords_other
      unique_other == coords_other \ coords_self
  IN  IF /\ self.coordenadas # other.coordenadas
         /\ (unique_self # {} \/ unique_other # {})
      THEN {"coordenadas"} ELSE {}

\* area_difiere: abs(self.area.area - other.area.area) > 1e-10, which the
\* geometry kernel decides
get_differences(self, other, area_difiere) ==
  IF ~IsTrayectoria(other)
  THEN Ok("dict", [k \in {"error"} |-> [tipo |-> other.clase]])
  ELSE
    LET coords_self == Rango(self.coordenadas)
        coords_other == Rango(other.coordenadas)
        unique_self == coords_self \ coords_other
        unique_other == coords_other \ coords_self
        claves ==
          _diferencia_coordenadas(self, other)
          \cup (IF self.ancho_buffer # other.ancho_buffer
                THEN {"ancho_buffer"} ELSE {})
          \cup (IF self.puntos_suavizado # other.puntos_suavizado
                THEN {"puntos_suavizado"} ELSE {})
          \cup (IF area_difiere THEN {"area"} ELSE {})
        detalle(k) ==
          CASE k = "coordenadas" ->
                 [self |-> unique_self, other |-> unique_other,
                  numero_self |-> Len(self.coordenadas),
                  numero_other |-> Len(other.coordenadas)]
            [] k = "ancho_buffer" ->
                 [self |-> self.ancho_buffer, other |-> other.ancho_buffer,
                  diferencia |-> Abs(self.ancho_buffer - other.ancho_buffer)]
            [] k = "puntos_suavizado" ->
                 [self |-> self.puntos_suavizado, other |-> other.puntos_suavizado,
                  diferencia |-> Abs(self.puntos_suavizado - other.puntos_suavizado)]
            [] OTHER -> [self |-> self.area, other |-> other.area]
    IN  IF claves = {} THEN Ok("NoneType", None)
        ELSE Ok("dict", [k \in claves |-> detalle(k)])

\* the outcomes the kernel can give for the comparison of the two areas: regions
\* built from the same points, width and resolution have the same area
AreaDifiere(self, other) ==
  IF IsTrayectoria(other) /\ self.area = other.area
     /\ self.coordenadas = other.coordenadas
     /\ self.ancho_buffer = other.ancho_buffer
  THEN {FALSE}
  ELSE IF IsTrayectoria(other) THEN BOOLEAN ELSE {FALSE}

\* Llamar2 for a method that writes its result over its receiver (self.x = ...)
Llamar2_en_sitio(op, rc, other, r) ==
  /\ llamada' = [op |-> op, self |-> rc[1], other |-> other, encadenada |-> rc[2],
                 previa |-> rc[3]]
  /\ resultado' = r
  /\ rutas' = [n \in Nombres |->
                 IF rutas[n] = rc[1] /\ r.estado = "ok" /\ r.clase = "Trayectoria"
                 THEN r.valor ELSE rutas[n]]

Llamar2(op, rc, other, r) ==
  /\ llamada' = [op |-> op, self |-> rc[1], other |-> other, encadenada |-> rc[2],
                 previa |-> rc[3]]
  /\ resultado' = r
  /\ UNCHANGED rutas

\* self + other
Add ==
  \E rc \in Receptores, other \in Operandos :
    \E r \in __add__(rc[1], other) :
      Llamar2("__add__", rc, other, r)

\* self - other
Sub ==
  \E rc \in Receptores, other \in Operandos :
    Llamar2("__sub__", rc, other, __sub__(rc[1], other))

\* self == other
Eq ==
  \E rc \in Receptores, other \in Operandos :
    Llamar2("__eq__", rc, other, __eq__(rc[1], other))

\* self.get_differences(other)
GetDifferences ==
  \E rc \in Receptores, other \in Operandos :
    \E area_difiere \in AreaDifiere(rc[1], other) :
      Llamar2("get_differences", rc, other,
              get_differences(rc[1], other, area_difiere))

---------------------------------------------------------------------------
(* Queries: contains, length, check_points, check_points_in_buffers,
   check_point_in_buffers, compare_with_linestring *)

ErrAtributo == "AttributeError: object has no attribute 'contains'"
ErrVacio == "ValueError: zero-size array to reduction operation"
ErrPuntoUnico == "ValueError: El punto debe ser una tupla (x,y) o un objeto Point"
ErrLinea == "ValueError: El parametro debe ser un LineString o coordenadas validas"

\* self.area.contains(Point(punto))
contains(self, punto) == punto \in self.area.celdas

\* self.area.boundary.distance(Point(punto))
length(self, punto) == self.area.borde[punto]

\* Python's any, all and sum on a list of booleans, and the comprehension
\* [i for i, c in enumerate(l) if c]
any(bs) == \E i \in 1..Len(bs) : bs[i]
all(bs) == \A i \in 1..Len(bs) : bs[i]
sum(bs) == Cardinality({i \in 1..Len(bs) : bs[i]})
Which(bs) == SelectSeq([i \in 1..Len(bs) |-> i - 1], LAMBDA k : bs[k + 1])

RECURSIVE SumaSeq(_)
SumaSeq(ns) == IF ns = <<>> THEN 0 ELSE Head(ns) + SumaSeq(Tail(ns))

\* sorted(l, key=...): stable insertion of e among the sorted es
RECURSIVE InsertarPorClave(_, _)
InsertarPorClave(e, es) ==
  IF es = <<>> THEN <<e>>
  ELSE IF e.clave < Head(es).clave THEN <<e>> \o es
       ELSE <<Head(es)>> \o InsertarPorClave(e, Tail(es))

RECURSIVE SortedPorClave(_)
SortedPorClave(es) ==
  IF es = <<>> THEN <<>>
  ELSE InsertarPorClave(es[Len(es)], SortedPorClave(SubSeq(es, 1, Len(es) - 1)))

\* arguments "puntos": a list of elements, a bare tuple (x, y), a list [x, y]
Tupla(p) == [clase |-> "tuple", valor |-> p]
ListaDe(elementos) == [forma |-> "lista", datos |-> elementos]
UnaTupla(p) == [forma |-> "tuple", datos |-> p]
ListaXY(p) == [forma |-> "lista_xy", datos |-> p]

\* lines 318-327 and 369-380: a single point is wrapped in a list, then every
\* element must be a tuple, a list or a Point
_puntos_a_points(puntos) ==
  LET lista == CASE puntos.forma = "tuple" -> <<Tupla(puntos.datos)>>
                 [] puntos.forma = "lista_xy" ->
                      <<[clase |-> "list", valor |-> puntos.datos]>>
                 [] OTHER -> puntos.datos
  IN  IF \E i \in 1..Len(lista) : lista[i].clase \notin {"tuple", "list", "Point"}
      THEN Err(ErrPunto)
      ELSE Ok("list", [i \in 1..Len(lista) |-> lista[i].valor])

check_points(self, puntos, modo) ==
  LET pts == _puntos_a_points(puntos)
  IN  IF pts.estado = "error" THEN pts
      ELSE
        LET points == pts.valor
            contenido == [i \in 1..Len(points) |-> contains(self, points[i])]
            distancias == [i \in 1..Len(points) |-> length(self, points[i])]
        IN  CASE modo = "contains" -> Ok("list", contenido)
              [] modo = "any" -> Ok("bool", any(contenido))
              [] modo = "all" -> Ok("bool", all(contenido))
              [] modo = "count" -> Ok("int", sum(contenido))
              [] modo = "which" -> Ok("list", Which(contenido))
              [] modo = "details" ->
                   Ok("dict",
                      [total_puntos |-> Len(points),
                       puntos_contenidos |-> Which(contenido),
                       numero_contenidos |-> sum(contenido),
                       todos_contenidos |-> all(contenido),
                       algun_contenido |-> any(contenido),
                       distancias |-> distancias,
                       puntos_por_distancia |->
                         SortedPorClave([i \in 1..Len(points) |->
                                           [idx |-> i - 1,
                                            contenido |-> contenido[i],
                                            clave |-> distancias[i]]])])
              [] OTHER -> Err(ErrModo)

\* arguments "rutas_buffer": a list of objects, or one object that is no list
ListaRutas(rs) == [forma |-> "lista", datos |-> rs]
UnaRuta(r) == [forma |-> "objeto", datos |-> r]

\* np.any / np.all of the boolean matrix along an axis, then .sum()
Fila(m, i) == m[i]
Columna(m, j) == [i \in 1..Len(m) |-> m[i][j]]

\* _matriz_contencion with every column filled from the first corridor
_matriz_contencion_primera_ruta(points, rutas_buffer) ==
  [i \in 1..Len(points) |->
     [j \in 1..Len(rutas_buffer) |-> contains(rutas_buffer[1], points[i])]]

\* lines 381-386, the containment half of the double loop
_matriz_contencion(points, rutas_buffer) ==
  [i \in 1..Len(points) |->
     [j \in 1..Len(rutas_buffer) |-> contains(rutas_buffer[j], points[i])]]

\* _summary with np.any and np.all taken for one another in the counts of points
_summary_trocado(points, rutas_buffer, matriz_contencion) ==
  LET filas == [i \in 1..Len(points) |-> Fila(matriz_contencion, i)]
      columnas == [j \in 1..Len(rutas_buffer) |-> Columna(matriz_contencion, j)]
  IN  [total_puntos |-> Len(points),
       total_rutas |-> Len(rutas_buffer),
       puntos_en_alguna_ruta |-> Cardinality({i \in 1..Len(points) : all(filas[i])}),
       puntos_en_todas_rutas |-> Cardinality({i \in 1..Len(points) : any(filas[i])}),
       rutas_con_algun_punto |->
         Cardinality({j \in 1..Len(rutas_buffer) : any(columnas[j])}),
       rutas_con_todos_puntos |->
         Cardinality({j \in 1..Len(rutas_buffer) : all(columnas[j])})]

\* lines 390-398, the counts of mode 'summary'
_summary(points, rutas_buffer, matriz_contencion) ==
  LET filas == [i \in 1..Len(points) |-> Fila(matriz_contencion, i)]
      columnas == [j \in 1..Len(rutas_buffer) |-> Columna(matriz_contencion, j)]
  IN  [total_puntos |-> Len(points),
       total_rutas |-> Len(rutas_buffer),
       puntos_en_alguna_ruta |-> Cardinality({i \in 1..Len(points) : any(filas[i])}),
       puntos_en_todas_rutas |-> Cardinality({i \in 1..Len(points) : all(filas[i])}),
       rutas_con_algun_punto |->
         Cardinality({j \in 1..Len(rutas_buffer) : any(columnas[j])}),
       rutas_con_todos_puntos |->
         Cardinality({j \in 1..Len(rutas_buffer) : all(columnas[j])})]

check_points_in_buffers(puntos, rutas_arg, modo) ==
  LET pts == _puntos_a_points(puntos)
      rutas_buffer == IF rutas_arg.forma = "objeto" THEN <<rutas_arg.datos>>
                      ELSE rutas_arg.datos
  IN  IF pts.estado = "error" THEN pts
      ELSE IF pts.valor # <<>>
              /\ \E j \in 1..Len(rutas_buffer) : ~IsTrayectoria(rutas_buffer[j])
      THEN Err(ErrAtributo)
      ELSE
        LET points == pts.valor
            N == Len(points)
            M == Len(rutas_buffer)
            matriz_contencion == _matriz_contencion(points, rutas_buffer)
            matriz_distancias ==
              [i \in 1..N |-> [j \in 1..M |-> length(rutas_buffer[j], points[i])]]
            por_punto(i) ==
              [punto_idx |-> i - 1,
               punto |-> points[i],
               rutas_contenedoras |-> Which(Fila(matriz_contencion, i)),
               total_rutas_contenedoras |-> sum(Fila(matriz_contencion, i)),
               distancias |-> Fila(matriz_distancias, i)]
            por_ruta(j) ==
              [ruta_idx |-> j - 1,
               puntos_contenidos |-> Which(Columna(matriz_contencion, j)),
               total_puntos_contenidos |-> sum(Columna(matriz_contencion, j)),
               distancias |-> Columna(matriz_distancias, j)]
            resumen(ds, todos) ==
              [distancia_minima |-> Min(Rango(ds)),
               distancia_maxima |-> Max(Rango(ds)),
               distancia_promedio |-> SumaSeq(ds) \div Len(ds),
               todos |-> todos]
        IN  CASE modo = "matrix" ->
                   Ok("ndarray", [shape |-> <<N, M>>, datos |-> matriz_contencion])
              [] modo = "summary" ->
                   Ok("dict", _summary(points, rutas_buffer, matriz_contencion)
                                @@ [matriz_contencion |-> matriz_contencion])
              [] modo = "by_point" ->
                   IF N > 0 /\ M = 0 THEN Err(ErrVacio)
                   ELSE Ok("list",
                           [i \in 1..N |->
                              [base |-> por_punto(i),
                               resumen |-> resumen(Fila(matriz_distancias, i),
                                                   all(Fila(matriz_contencion, i)))]])
              [] modo = "by_buffer" ->
                   IF M > 0 /\ N = 0 THEN Err(ErrVacio)
                   ELSE Ok("list",
                           [j \in 1..M |->
                              [base |-> por_ruta(j),
                               resumen |-> resumen(Columna(matriz_distancias, j),
                                                   all(Columna(matriz_contencion, j)))]])
              [] modo = "detailed" ->
                   Ok("dict",
                      [summary |-> _summary(points, rutas_buffer, matriz_contencion),
                       matriz_contencion |-> matriz_contencion,
                       matriz_distancias |-> matriz_distancias,
                       analisis_por_punto |-> [i \in 1..N |-> por_punto(i)],
                       analisis_por_ruta |-> [j \in 1..M |-> por_ruta(j)]])
              [] OTHER -> Err(ErrModo)

\* check_point_in_buffers counting with len(contenido), not sum(contenido)
check_point_in_buffers_len(punto, rutas_arg, modo) ==
  LET rutas_buffer == IF rutas_arg.forma = "objeto" THEN <<rutas_arg.datos>>
                      ELSE rutas_arg.datos
  IN  IF punto.clase \notin {"tuple", "list", "Point"} THEN Err(ErrPuntoUnico)
      ELSE IF \E j \in 1..Len(rutas_buffer) : ~IsTrayectoria(rutas_buffer[j])
      THEN Err(ErrRutas)
      ELSE
        LET contenido ==
              [j \in 1..Len(rutas_buffer) |-> contains(rutas_buffer[j], punto.valor)]
        IN  CASE modo = "any" -> Ok("bool", any(contenido))
              [] modo = "all" -> Ok("bool", all(contenido))
              [] modo = "count" -> Ok("int", Len(contenido))
              [] modo = "which" -> Ok("list", Which(contenido))
              [] modo = "details" ->
                   Ok("dict",
                      [total_rutas |-> Len(rutas_buffer),
                       rutas_contenedoras |-> Which(contenido),
                       numero_rutas_contenedoras |-> sum(contenido),
                       en_todas |-> all(contenido),
                       en_alguna |-> any(contenido),
                       distancias |->
                         [j \in 1..Len(rutas_buffer) |->
                            length(rutas_buffer[j], punto.valor)]])
              [] OTHER -> Err(ErrModo)

\* punto: one element (a tuple, a list, a Point or something else)
check_point_in_buffers(punto, rutas_arg, modo) ==
  LET rutas_buffer == IF rutas_arg.forma = "objeto" THEN <<rutas_arg.datos>>
                      ELSE rutas_arg.datos
  IN  IF punto.clase \notin {"tuple", "list", "Point"} THEN Err(ErrPuntoUnico)
      ELSE IF \E j \in 1..Len(rutas_buffer) : ~IsTrayectoria(rutas_buffer[j])
      THEN Err(ErrRutas)
      ELSE
        LET contenido ==
              [j \in 1..Len(rutas_buffer) |-> contains(rutas_buffer[j], punto.valor)]
        IN  CASE modo = "any" -> Ok("bool", any(contenido))
              [] modo = "all" -> Ok("bool", all(contenido))
              [] modo = "count" -> Ok("int", sum(contenido))
              [] modo = "which" -> Ok("list", Which(contenido))
              [] modo = "details" ->
                   Ok("dict",
                      [total_rutas |-> Len(rutas_buffer),
                       rutas_contenedoras |-> Which(contenido),
                       numero_rutas_contenedoras |-> sum(contenido),
                       en_todas |-> all(contenido),
                       en_alguna |-> any(contenido),
                       distancias |->
                         [j \in 1..Len(rutas_buffer) |->
                            length(rutas_buffer[j], punto.valor)]])
              [] OTHER -> Err(ErrModo)

\* shapely's LineString(coords): a line has no or at least two coordinates
LineString(coords) ==
  IF Len(coords) = 1 THEN Err(ErrLineString) ELSE Ok("LineString", coords)

\* line.length
Longitud(coords) ==
  SumaSeq([i \in 1..(Len(coords) - 1) |-> Isqrt(Dist2(coords[i], coords[i + 1]))])

\* a.hausdorff_distance(b) of two lines, over their vertices
Hausdorff(a, b) ==
  Max({DistPolilinea(b, a[i]) : i \in 1..Len(a)}
        \cup {DistPolilinea(a, b[i]) : i \in 1..Len(b)})

\* arguments "linestring": a LineString, a list of coordinates, something else
UnLineString(coords) == [forma |-> "LineString", datos |-> coords]
ListaCoords(coords) == [forma |-> "lista", datos |-> coords]
OtraLinea == [forma |-> "otro", datos |-> <<>>]

compare_with_linestring(self, linestring_arg, modo) ==
  LET linea == CASE linestring_arg.forma = "LineString" ->
                      Ok("LineString", linestring_arg.datos)
                 [] linestring_arg.forma = "lista" -> LineString(linestring_arg.datos)
                 [] OTHER -> Err(ErrLinea)
      ruta_line == LineString(self.coordenadas)
  IN  IF linea.estado = "error" THEN linea
      ELSE IF ruta_line.estado = "error" THEN ruta_line
      ELSE
        LET coords_linestring == linea.valor
            n_self == Len(self.coordenadas)
            n_line == Len(coords_linestring)
            misma_longitud ==
              Longitud(self.coordenadas) = Longitud(coords_linestring)
            mismo_num_puntos == n_self = n_line
            mismos_puntos_inicio_fin ==
              /\ self.coordenadas[1] = coords_linestring[1]
              /\ self.coordenadas[n_self] = coords_linestring[n_line]
            min_len == IF n_self < n_line THEN n_self ELSE n_line
            distancias ==
              [i \in 1..min_len |->
                 Isqrt(Dist2(self.coordenadas[i], coords_linestring[i]))]
            \* linestring.buffer(self.ancho_buffer), on the probe points
            buffer_line ==
              {q \in Sondas : EnUnion(coords_linestring, self.ancho_buffer, q)}
            sobre(coords) ==
              Rango(coords)
                \cup {q \in Sondas :
                        \E i \in 1..(Len(coords) - 1) :
                          DistSegmento2(coords[i], coords[i + 1], q) = 0}
        IN  CASE modo = "basic" /\ n_line = 0 -> Err(ErrIndice)
              [] modo = "basic" /\ n_line > 0 ->
                   Ok("dict", [misma_longitud |-> misma_longitud,
                               mismo_num_puntos |-> mismo_num_puntos,
                               mismos_puntos_inicio_fin |-> mismos_puntos_inicio_fin])
              [] modo = "detailed" /\ n_line = 0 -> Err(ErrIndice)
              [] modo = "detailed" /\ n_line > 0 ->
                   Ok("dict",
                      [misma_longitud |-> misma_longitud,
                       mismo_num_puntos |-> mismo_num_puntos,
                       mismos_puntos_inicio_fin |-> mismos_puntos_inicio_fin,
                       distancia_maxima_entre_puntos |-> Max(Rango(distancias)),
                       distancia_promedio_entre_puntos |->
                         SumaSeq(distancias) \div Len(distancias),
                       diferencia_longitud |->
                         Abs(Longitud(self.coordenadas) - Longitud(coords_linestring)),
                       puntos_ruta |-> n_self,
                       puntos_linestring |-> n_line])
              [] modo = "geometric" ->
                   Ok("dict",
                      [misma_longitud |-> misma_longitud,
                       mismo_num_puntos |-> mismo_num_puntos,
                       area_diferencia |->
                         (self.area.celdas \ buffer_line)
                           \cup (buffer_line \ self.area.celdas),
                       area_intersection |-> self.area.celdas \cap buffer_line,
                       area_union |-> self.area.celdas \cup buffer_line,
                       hausdorff_distance |->
                         Hausdorff(self.coordenadas, coords_linestring),
                       contiene_linestring |->
                         \A q \in sobre(coords_linestring) :
                           EnUnion(self.coordenadas, self.ancho_buffer, q),
                       linestring_contiene_ruta |->
                         \A q \in sobre(self.coordenadas) :
                           EnUnion(coords_linestring, self.ancho_buffer, q)])
              [] OTHER -> Err(ErrModo)

\* the mode vocabularies of the four queries, and the strings callers try
ModosCheckPoints == {"contains", "any", "all", "count", "which", "details"}
ModosCheckPointsInBuffers == {"matrix", "summary", "by_point", "by_buffer", "detailed"}
ModosCheckPointInBuffers == {"any", "all", "count", "which", "details"}
ModosCompareWithLinestring == {"basic", "detailed", "geometric"}
\* a query is tried with its own modes, with modes of other queries and with a
\* string that is no mode of any
ModosAjenos == {"contains", "any", "otro"}
ModosDe(vocabulario) == vocabulario \cup ModosAjenos

\* query points, all of them probe points
PuntosConsulta == {<<4, 0>>, <<20, 20>>}

ArgsPuntos ==
  {ListaDe(s) : s \in SeqsHasta({Tupla(p) : p \in PuntosConsulta}, MaxPts)}
    \cup {UnaTupla(p) : p \in PuntosConsulta}
    \cup {ListaXY(p) : p \in PuntosConsulta}
    \cup {ListaDe(<<None>>)}

ArgsRutas ==
  {ListaRutas(s) : s \in SeqsHasta(Construidas, MaxRutas)}
    \cup {UnaRuta(c) : c \in Construidas}
    \cup {ListaRutas(<<OtroObjeto>>)}

ArgsLinea ==
  {ListaCoords(s) : s \in {<<<<0, 0>>>>, <<<<0, 0>>, <<8, 0>>>>, <<<<8, 0>>, <<0, 0>>>>}}
    \cup {UnLineString(<<<<0, 0>>, <<8, 6>>>>), OtraLinea}

\* self.check_points(puntos, modo)
CheckPoints ==
  \E rc \in Receptores, puntos \in ArgsPuntos, modo \in ModosDe(ModosCheckPoints) :
    /\ llamada' = [op |-> "check_points", self |-> rc[1], puntos |-> puntos,
                   modo |-> modo, encadenada |-> rc[2], previa |-> rc[3]]
    /\ resultado' = check_points(rc[1], puntos, modo)
    /\ UNCHANGED rutas

\* Trayectoria.check_points_in_buffers(puntos, rutas_buffer, modo)
CheckPointsInBuffers ==
  /\ Libre
  /\ \E puntos \in ArgsPuntos, rutas_buffer \in ArgsRutas,
        modo \in ModosDe(ModosCheckPointsInBuffers) :
    /\ llamada' = [op |-> "check_points_in_buffers", puntos |-> puntos,
                   rutas_buffer |-> rutas_buffer, modo |-> modo,
                   encadenada |-> FALSE]
    /\ resultado' = check_points_in_buffers(puntos, rutas_buffer, modo)
    /\ UNCHANGED rutas

\* Trayectoria.check_point_in_buffers(punto, rutas_buffer, modo)
CheckPointInBuffers ==
  /\ Libre
  /\ \E punto \in {Tupla(p) : p \in PuntosConsulta} \cup {None},
        rutas_buffer \in ArgsRutas, modo \in ModosDe(ModosCheckPointInBuffers) :
    /\ llamada' = [op |-> "check_point_in_buffers", punto |-> punto,
                   rutas_buffer |-> rutas_buffer, modo |-> modo,
                   encadenada |-> FALSE]
    /\ resultado' = check_point_in_buffers(punto, rutas_buffer, modo)
    /\ UNCHANGED rutas

\* self.compare_with_linestring(linestring, modo)
CompareWithLinestring ==
  \E rc \in Receptores, linestring \in ArgsLinea,
     modo \in ModosDe(ModosCompareWithLinestring) :
    /\ llamada' = [op |-> "compare_with_linestring", self |-> rc[1],
                   linestring |-> linestring, modo |-> modo, encadenada |-> rc[2],
                   previa |-> rc[3]]
    /\ resultado' = compare_with_linestring(rc[1], linestring, modo)
    /\ UNCHANGED rutas

\* constructor inputs of the specifications that exercise the queries
EntradasBasicas ==
  {ListaPares(s) : s \in {<<>>, <<<<0, 0>>>>, <<<<0, 0>>, <<8, 0>>>>,
                          <<<<8, 0>>, <<8, 6>>>>}}
    \cup {NoProcesable}

ConstruirBasica == ConstruirDe(Nombres, EntradasBasicas, {<<3, PuntosSuavizadoDefecto>>})

NextConsultas ==
  ConstruirBasica \/ Retornar \/ CheckPoints \/ CheckPointsInBuffers
    \/ CheckPointInBuffers \/ CompareWithLinestring

SpecConsultas == Init /\ [][NextConsultas]_vars

---------------------------------------------------------------------------
(* Derived operations: get_statistics, simplify, split_at_point, get_gradient,
   interpolate_points *)

\* floats that need not be integers: num / den in lowest terms, den >= 0;
\* 1/0 is float('inf') and -1/0 is float('-inf')
RECURSIVE Gcd(_, _)
Gcd(a, b) == IF b = 0 THEN a ELSE Gcd(b, a % b)

Float(num, den) ==
  LET g == Gcd(Abs(num), Abs(den))
      sg == IF den < 0 THEN -1 ELSE 1
  IN  IF g = 0 THEN [clase |-> "float", num |-> 0, den |-> 0]
      ELSE [clase |-> "float", num |-> sg * (num \div g), den |-> sg * (den \div g)]

Inf == [clase |-> "float", num |-> 1, den |-> 0]
NegInf == [clase |-> "float", num |-> -1, den |-> 0]

\* get_gradient with float('inf') for every vertical segment
get_gradient_sin_signo(self) ==
  Ok("list",
     [i \in 1..(Len(self.coordenadas) - 1) |->
        LET p1 == self.coordenadas[i]
            p2 == self.coordenadas[i + 1]
            dx == p2[1] - p1[1]
            dy == p2[2] - p1[2]
        IN  IF dx = 0 THEN Inf ELSE Float(dy, dx)])

get_gradient(self) ==
  Ok("list",
     [i \in 1..(Len(self.coordenadas) - 1) |->
        LET p1 == self.coordenadas[i]
            p2 == self.coordenadas[i + 1]
            dx == p2[1] - p1[1]
            dy == p2[2] - p1[2]
        IN  IF dx = 0 THEN (IF dy > 0 THEN Inf ELSE NegInf)
            ELSE Float(dy, dx)])

\* np.linspace(0, stop, num): num evenly spaced values, the last one stop
Linspace(stop, num) ==
  [k \in 1..num |-> IF num = 1 THEN 0 ELSE (stop * (k - 1)) \div (num - 1)]

\* line.interpolate(distance): the point at that distance along the line,
\* clamped to its two ends
RECURSIVE InterpolateDesde(_, _, _)
InterpolateDesde(coords, i, distance) ==
  LET p1 == coords[i]
      p2 == coords[i + 1]
      l == Isqrt(Dist2(p1, p2))
  IN  IF i + 1 = Len(coords) /\ distance >= l THEN p2
      ELSE IF distance >= l /\ i + 1 < Len(coords)
      THEN InterpolateDesde(coords, i + 1, distance - l)
      ELSE <<p1[1] + ((p2[1] - p1[1]) * distance) \div l,
             p1[2] + ((p2[2] - p1[2]) * distance) \div l>>

Interpolate(coords, distance) ==
  IF distance <= 0 THEN coords[1] ELSE InterpolateDesde(coords, 1, distance)

interpolate_points(self, num_points) ==
  LET line == LineString(self.coordenadas)
  IN  IF line.estado = "error" THEN line
      ELSE LET distances == Linspace(Longitud(line.valor), num_points)
               new_coords == [k \in 1..num_points |->
                                Interpolate(line.valor, distances[k])]
           IN  __init__(ListaPares(new_coords), self.ancho_buffer,
                        self.puntos_suavizado)

\* line.project(point): the distance along the line of its point nearest to
\* point (the first such point)
RECURSIVE ProjectDesde(_, _, _, _, _)
ProjectDesde(coords, i, acumulado, punto, mejor) ==
  IF i >= Len(coords) THEN mejor[2]
  ELSE LET p1 == coords[i]
           p2 == coords[i + 1]
           l == Isqrt(Dist2(p1, p2))
           dd == Dist2(p1, p2)
           dot == (punto[1] - p1[1]) * (p2[1] - p1[1])
                    + (punto[2] - p1[2]) * (p2[2] - p1[2])
           a_lo_largo == IF dd = 0 \/ dot <= 0 THEN 0
                         ELSE IF dot >= dd THEN l ELSE (dot * l) \div dd
           d2 == DistSegmento2(p1, p2, punto)
           nuevo == IF mejor[1] < 0 \/ d2 < mejor[1]
                    THEN <<d2, acumulado + a_lo_largo>> ELSE mejor
       IN  ProjectDesde(coords, i + 1, acumulado + l, punto, nuevo)

Project(coords, punto) == ProjectDesde(coords, 1, 0, punto, <<-1, 0>>)

\* line.project(point, normalized=True): a float, the fraction of the length
ProjectNormalized(coords, punto) == Float(Project(coords, punto), Longitud(coords))

\* coords[:indice] and coords[indice:]: a slice index must be an int
SliceHasta(coords, indice) ==
  IF indice.clase # "int" THEN Err(ErrSlice)
  ELSE Ok("list", SubSeq(coords, 1, indice.valor))

SliceDesde(coords, indice) ==
  IF indice.clase # "int" THEN Err(ErrSlice)
  ELSE Ok("list", SubSeq(coords, indice.valor + 1, Len(coords)))

split_at_point(self, punto) ==
  LET line == LineString(self.coordenadas)
  IN  IF line.estado = "error" THEN line
      ELSE
        LET nearest_point == Interpolate(line.valor, Project(line.valor, punto))
            split_distance == Project(line.valor, nearest_point)
            indice == ProjectNormalized(line.valor, punto)
            coords1 == SliceHasta(line.valor, indice)
            coords2 == SliceDesde(line.valor, indice)
        IN  IF coords1.estado = "error" THEN coords1
            ELSE IF LineString(coords1.valor).estado = "error"
            THEN LineString(coords1.valor)
            ELSE IF coords2.estado = "error" THEN coords2
            ELSE IF LineString(coords2.valor).estado = "error"
            THEN LineString(coords2.valor)
            ELSE
              LET t1 == __init__(ListaPares(coords1.valor), self.ancho_buffer,
                                 self.puntos_suavizado)
                  t2 == __init__(ListaPares(coords2.valor), self.ancho_buffer,
                                 self.puntos_suavizado)
              IN  IF t1.estado = "error" THEN t1
                  ELSE IF t2.estado = "error" THEN t2
                  ELSE Ok("tuple", <<t1.valor, t2.valor>>)

\* line.simplify(tolerance): Douglas-Peucker between the two ends
RECURSIVE DouglasPeucker(_, _)
DouglasPeucker(coords, tolerance) ==
  IF Len(coords) <= 2 THEN coords
  ELSE
    LET n == Len(coords)
        d2(i) == DistSegmento2(coords[1], coords[n], coords[i])
        lejos == CHOOSE i \in 2..(n - 1) :
                   \A j \in 2..(n - 1) : d2(j) < d2(i) \/ (d2(j) = d2(i) /\ i <= j)
    IN  IF d2(lejos) <= tolerance * tolerance
        THEN <<coords[1], coords[n]>>
        ELSE DouglasPeucker(SubSeq(coords, 1, lejos), tolerance)
               \o Tail(DouglasPeucker(SubSeq(coords, lejos, n), tolerance))

simplify(self, tolerance) ==
  LET line == LineString(self.coordenadas)
  IN  IF line.estado = "error" THEN line
      ELSE __init__(ListaPares(DouglasPeucker(line.valor, tolerance)),
                    self.ancho_buffer, self.puntos_suavizado)

get_statistics(self) ==
  LET centerline == LineString(self.coordenadas)
  IN  IF centerline.estado = "error" THEN centerline
      ELSE Ok("dict", [longitud_ruta |-> Longitud(centerline.valor),
                       area_buffer |-> self.area,
                       num_puntos |-> Len(self.coordenadas)])

Llamar1(op, rc, arg, r) ==
  /\ llamada' = [op |-> op, self |-> rc[1], arg |-> arg, encadenada |-> rc[2],
                 previa |-> rc[3]]
  /\ resultado' = r
  /\ UNCHANGED rutas

\* self.get_gradient()
GetGradient ==
  \E rc \in Receptores : Llamar1("get_gradient", rc, None, get_gradient(rc[1]))

\* self.interpolate_points(num_points)
InterpolatePoints ==
  \E rc \in Receptores, num_points \in 0..MaxN :
    Llamar1("interpolate_points", rc, num_points,
            interpolate_points(rc[1], num_points))

\* self.split_at_point(punto)
SplitAtPoint ==
  \E rc \in Receptores, punto \in PuntosConsulta \cup Puntos :
    Llamar1("split_at_point", rc, punto, split_at_point(rc[1], punto))

\* tolerances handed to simplify
Tolerancias == {0, 1, 10}

\* self.simplify(tolerance)
Simplify ==
  \E rc \in Receptores, tolerance \in Tolerancias :
    Llamar1("simplify", rc, tolerance, simplify(rc[1], tolerance))

\* self.get_statistics()
GetStatistics ==
  \E rc \in Receptores : Llamar1("get_statistics", rc, None, get_statistics(rc[1]))

NextDerivadas ==
  ConstruirUna \/ Retornar \/ GetGradient \/ InterpolatePoints \/ SplitAtPoint
    \/ Simplify \/ GetStatistics

SpecDerivadas == Init /\ [][NextDerivadas]_vars

NextConstruccion == ConstruirCiclo \/ Retornar

SpecConstruccion == Init /\ [][NextConstruccion]_vars

NextAlgebra == Construir \/ Retornar \/ Add \/ Sub \/ Eq \/ GetDifferences

SpecAlgebra == Init /\ [][NextAlgebra]_vars

\* every operation, on the corridors of the query specification
Next ==
  ConstruirBasica \/ Retornar \/ Add \/ Sub \/ Eq \/ GetDifferences
    \/ CheckPoints \/ CheckPointsInBuffers \/ CheckPointInBuffers
    \/ CompareWithLinestring \/ GetGradient \/ InterpolatePoints \/ SplitAtPoint
    \/ Simplify \/ GetStatistics

Spec == Init /\ [][Next]_vars

---------------------------------------------------------------------------
(* The error kinds of the specification, as sets of the exceptions raised *)

InvalidInput == {ErrCoordenadas, ErrPunto, ErrPuntoUnico, ErrLinea, ErrRutas}
TypeMismatch == {ErrSumar, ErrRestar}
UnsupportedMode == {ErrModo}

\* the call at hand was made with corridors where corridors are expected
EsPar(op) == llamada.op = op /\ IsTrayectoria(llamada.other)

---------------------------------------------------------------------------
(* C1 *)

\* the call at hand is the batch query in mode 'matrix' on a list of points
\* and a list of corridors
C1_Caso ==
  /\ llamada.op = "check_points_in_buffers"
  /\ llamada.modo = "matrix"
  /\ llamada.puntos.forma = "lista"
  /\ \A i \in 1..Len(llamada.puntos.datos) : llamada.puntos.datos[i].clase = "tuple"
  /\ llamada.rutas_buffer.forma = "lista"
  /\ \A j \in 1..Len(llamada.rutas_buffer.datos) :
       IsTrayectoria(llamada.rutas_buffer.datos[j])

\* C1: for every list of N points and every list of M corridors, the batch
\* query in mode 'matrix' returns an N-by-M boolean matrix C with
\* C[i][j] = corridors[j].contains(points[i]) for every pair (i, j).
C1_MatrizIgualAContains ==
  C1_Caso =>
    LET N == Len(llamada.puntos.datos)
        M == Len(llamada.rutas_buffer.datos)
    IN  /\ resultado.estado = "ok"
        /\ resultado.clase = "ndarray"
        /\ resultado.valor.shape = <<N, M>>
        /\ Len(resultado.valor.datos) = N
        /\ \A i \in 1..N :
             /\ Len(resultado.valor.datos[i]) = M
             /\ \A j \in 1..M :
                  resultado.valor.datos[i][j]
                    = contains(llamada.rutas_buffer.datos[j],
                               llamada.puntos.datos[i].valor)

\* three points against two different corridors, the matrix holding both values
C1_Testigo ==
  /\ C1_Caso
  /\ Len(llamada.puntos.datos) = 3
  /\ Len(llamada.rutas_buffer.datos) = 2
  /\ llamada.rutas_buffer.datos[1] # llamada.rutas_buffer.datos[2]
  /\ resultado.estado = "ok"
  /\ \E i \in 1..3 : resultado.valor.datos[i] = <<TRUE, FALSE>>
  /\ \E i \in 1..3 : resultado.valor.datos[i] = <<FALSE, FALSE>>

---------------------------------------------------------------------------
(* C2 *)

\* C2 (as claimed): combine returns a corridor whose stored points are the
\* distinct points of the two operands, each once, ordered by x ascending,
\* and whose width is the left operand's.
C2_CombineOrdenadoPorXAscendente ==
  EsPar("__add__") =>
    /\ resultado.estado = "ok"
    /\ LET cs == resultado.valor.coordenadas
       IN  /\ Rango(cs) = Rango(llamada.self.coordenadas)
                            \cup Rango(llamada.other.coordenadas)
           /\ Len(cs) = Cardinality(Rango(cs))
           /\ \A i, j \in 1..Len(cs) : i < j => cs[i][1] <= cs[j][1]
    /\ resultado.valor.ancho_buffer = llamada.self.ancho_buffer

---------------------------------------------------------------------------
(* C3 *)

\* the call at hand is (a + b) - b
C3_Caso ==
  /\ EsPar("__sub__")
  /\ llamada.encadenada
  /\ llamada.previa.op = "__add__"
  /\ llamada.previa.other = llamada.other

\* C3 (as claimed): a.combine(b).subtract(b) succeeds and the set of points of
\* its result is the set of a's points.
C3_RestarTrasSumarRestaura ==
  C3_Caso =>
    /\ resultado.estado = "ok"
    /\ Rango(resultado.valor.coordenadas) = Rango(llamada.previa.self.coordenadas)

\* C3 (amended): a.combine(b).subtract(b) yields a corridor whose set of points
\* is the set of a's points that are not points of b, hence a's set exactly
\* when a and b share no point; when every point of a is a point of b it
\* yields no corridor, the construction from zero points failing.
C3_RestarTrasSumarQuitaComunes ==
  C3_Caso =>
    LET A == Rango(llamada.previa.self.coordenadas)
        B == Rango(llamada.other.coordenadas)
    IN  /\ (A \subseteq B) => resultado.estado = "error"
        /\ ~(A \subseteq B) =>
             /\ resultado.estado = "ok"
             /\ Rango(resultado.valor.coordenadas) = A \ B
             /\ (A \cap B = {}) <=> (Rango(resultado.valor.coordenadas) = A)

\* a and b share a point, a has a point of its own, and the result lacks the
\* shared one
C3_Testigo ==
  /\ C3_Caso
  /\ resultado.estado = "ok"
  /\ Rango(llamada.previa.self.coordenadas) \cap Rango(llamada.other.coordenadas) # {}
  /\ Rango(resultado.valor.coordenadas) # Rango(llamada.previa.self.coordenadas)

---------------------------------------------------------------------------
(* C4 *)

\* the call at hand is a mode-taking query with a mode outside its vocabulary
C4_ModoDesconocido ==
  \/ llamada.op = "check_points" /\ llamada.modo \notin ModosCheckPoints
  \/ llamada.op = "check_points_in_buffers"
       /\ llamada.modo \notin ModosCheckPointsInBuffers
  \/ llamada.op = "check_point_in_buffers"
       /\ llamada.modo \notin ModosCheckPointInBuffers
  \/ llamada.op = "compare_with_linestring"
       /\ llamada.modo \notin ModosCompareWithLinestring

EsListaDePuntos(puntos) ==
  \/ puntos.forma # "lista"
  \/ \A i \in 1..Len(puntos.datos) : puntos.datos[i].clase \in {"tuple", "list", "Point"}

EsListaDeRutas(rutas_arg) ==
  IF rutas_arg.forma = "objeto" THEN IsTrayectoria(rutas_arg.datos)
  ELSE \A j \in 1..Len(rutas_arg.datos) : IsTrayectoria(rutas_arg.datos[j])

\* the other arguments of the call at hand are well formed: points are points,
\* corridors are corridors, the line is a line
C4_ArgumentosValidos ==
  CASE llamada.op = "check_points" -> EsListaDePuntos(llamada.puntos)
    [] llamada.op = "check_points_in_buffers" ->
         EsListaDePuntos(llamada.puntos) /\ EsListaDeRutas(llamada.rutas_buffer)
    [] llamada.op = "check_point_in_buffers" ->
         llamada.punto.clase = "tuple" /\ EsListaDeRutas(llamada.rutas_buffer)
    [] llamada.op = "compare_with_linestring" ->
         /\ llamada.linestring.forma \in {"LineString", "lista"}
         /\ Len(llamada.linestring.datos) # 1
    [] OTHER -> FALSE

\* C4 (as claimed, for calls whose other arguments are well formed): a
\* mode-taking query called with a mode outside its vocabulary ends in an
\* UnsupportedMode error and returns no result.
C4_ModoDesconocidoEsUnsupportedMode ==
  (C4_ModoDesconocido /\ C4_ArgumentosValidos) =>
    /\ resultado.estado = "error"
    /\ resultado.error \in UnsupportedMode

---------------------------------------------------------------------------
(* C5 *)

C5_Caso ==
  /\ llamada.op \in {"__add__", "__sub__", "__eq__"}
  /\ ~IsTrayectoria(llamada.other)

\* C5 (as claimed): combine, subtract and equals, given an operand that is no
\* corridor, each fail with a TypeMismatch error and produce no value.
C5_TresFallanConTypeMismatch ==
  C5_Caso => resultado.estado = "error" /\ resultado.error \in TypeMismatch

\* C5 (amended): given an operand that is no corridor, combine and subtract
\* each fail with a TypeMismatch error and produce no value, and equals
\* returns false.
C5_SumaYRestaFallanEqDevuelveFalse ==
  C5_Caso =>
    IF llamada.op = "__eq__"
    THEN resultado = Ok("bool", FALSE)
    ELSE resultado.estado = "error" /\ resultado.error \in TypeMismatch

C5_Testigo ==
  /\ C5_Caso
  /\ llamada.op = "__add__"
  /\ resultado.estado = "error"
  /\ resultado.error = ErrSumar

---------------------------------------------------------------------------
(* C6 *)

\* the call at hand constructs a corridor from zero points
C6_CeroPuntos ==
  \/ /\ llamada.op = "__init__"
     /\ \/ llamada.coordenadas.forma = "lista_pares" /\ llamada.coordenadas.datos = <<>>
        \/ llamada.coordenadas.forma = "lista_plana"
             /\ Len(llamada.coordenadas.datos) < 2
  \/ /\ EsPar("__sub__")
     /\ Rango(llamada.self.coordenadas) \subseteq Rango(llamada.other.coordenadas)

\* C6 (as claimed): no corridor with an empty point sequence is ever produced;
\* constructing one from zero points, directly or through a derived operation
\* whose point list is empty, fails at construction with an InvalidInput error.
C6_CeroPuntosEsInvalidInput ==
  /\ \A c \in Construidas : c.coordenadas # <<>>
  /\ (resultado.estado = "ok" /\ resultado.clase = "Trayectoria") =>
       resultado.valor.coordenadas # <<>>
  /\ C6_CeroPuntos =>
       resultado.estado = "error" /\ resultado.error \in InvalidInput

---------------------------------------------------------------------------
(* C7 *)

C7_InformaCoordenadas ==
  resultado.clase = "dict" /\ "coordenadas" \in DOMAIN resultado.valor

\* C7: equals is true exactly when the stored sequences are identical element
\* by element and width and resolution are equal; diff reports a coordinates
\* discrepancy exactly when the two sets of points differ; so corridors
\* holding the same points in another order are not equal, and diff reports no
\* coordinates discrepancy for them.
C7_EqPorSecuenciaDiffPorConjunto ==
  /\ EsPar("__eq__") =>
       resultado =
         Ok("bool",
            /\ Len(llamada.self.coordenadas) = Len(llamada.other.coordenadas)
            /\ \A i \in 1..Len(llamada.self.coordenadas) :
                 llamada.self.coordenadas[i] = llamada.other.coordenadas[i]
            /\ llamada.self.ancho_buffer = llamada.other.ancho_buffer
            /\ llamada.self.puntos_suavizado = llamada.other.puntos_suavizado)
  /\ EsPar("get_differences") =>
       /\ resultado.estado = "ok"
       /\ C7_InformaCoordenadas
            <=> (Rango(llamada.self.coordenadas) # Rango(llamada.other.coordenadas))

\* diff of two corridors with the same width and resolution that hold the same
\* two points in opposite orders: they are not equal, and no coordinates
\* discrepancy is reported
C7_Testigo ==
  /\ EsPar("get_differences")
  /\ Len(llamada.self.coordenadas) = 2
  /\ llamada.self.coordenadas[1] # llamada.self.coordenadas[2]
  /\ llamada.other.coordenadas = Reverse(llamada.self.coordenadas)
  /\ llamada.self.ancho_buffer = llamada.other.ancho_buffer
  /\ llamada.self.puntos_suavizado = llamada.other.puntos_suavizado
  /\ __eq__(llamada.self, llamada.other) = Ok("bool", FALSE)
  /\ ~C7_InformaCoordenadas

---------------------------------------------------------------------------
(* C8 *)

\* C8 (as claimed, for counts of two and more on corridors of two points and
\* more): interpolate(n) returns a corridor with exactly n stored points, the
\* first the first point of the original centerline, the last its last point.
C8_InterpolateConservaExtremos ==
  (/\ llamada.op = "interpolate_points"
   /\ llamada.arg >= 2
   /\ Len(llamada.self.coordenadas) >= 2) =>
    /\ resultado.estado = "ok"
    /\ Len(resultado.valor.coordenadas) = llamada.arg
    /\ resultado.valor.coordenadas[1] = llamada.self.coordenadas[1]
    /\ resultado.valor.coordenadas[llamada.arg]
         = llamada.self.coordenadas[Len(llamada.self.coordenadas)]

---------------------------------------------------------------------------
(* C9 *)

\* C9 (as claimed): splitAt(point) succeeds for every corridor of two or more
\* points and returns two corridors whose point sequences are a prefix and the
\* complementary suffix of the original vertex list.
C9_SplitParteLaLista ==
  (llamada.op = "split_at_point" /\ Len(llamada.self.coordenadas) >= 2) =>
    /\ resultado.estado = "ok"
    /\ resultado.clase = "tuple"
    /\ resultado.valor[1].coordenadas \o resultado.valor[2].coordenadas
         = llamada.self.coordenadas

---------------------------------------------------------------------------
(* C10 *)

\* C10: gradient() returns one value per consecutive pair of stored points, in
\* order: dy/dx when dx is not 0, +infinity when dx = 0 and dy > 0, -infinity
\* when dx = 0 and dy < 0.
C10_GradientePorSegmento ==
  llamada.op = "get_gradient" =>
    LET cs == llamada.self.coordenadas
    IN  /\ resultado.estado = "ok"
        /\ Len(resultado.valor) = Len(cs) - 1
        /\ \A i \in 1..(Len(cs) - 1) :
             LET dx == cs[i + 1][1] - cs[i][1]
                 dy == cs[i + 1][2] - cs[i][2]
                 g == resultado.valor[i]
             IN  /\ dx # 0 => (g.den # 0 /\ g.num * dx = dy * g.den)
                 /\ (dx = 0 /\ dy > 0) => (g.den = 0 /\ g.num > 0)
                 /\ (dx = 0 /\ dy < 0) => (g.den = 0 /\ g.num < 0)

\* a route of a vertical segment upwards and then a segment of slope 3/4
C10_Testigo ==
  /\ llamada.op = "get_gradient"
  /\ resultado.estado = "ok"
  /\ Len(resultado.valor) = 2
  /\ resultado.valor[1] = Inf
  /\ resultado.valor[2] = Float(3, 4)
---------------------------------------------------------------------------
(* C11 *)

\* C11: no query and no derived operation changes a corridor that exists: the
\* point sequence, width, resolution and Region of every constructed corridor
\* stay what the constructor made them, whatever is called with it as receiver
\* or argument; results are new corridors.
C11_CorredoresInmutables ==
  [][\A n \in Nombres : IsTrayectoria(rutas[n]) => rutas'[n] = rutas[n]]_vars

\* a - b has just returned a corridor that differs from a, and a is still held
\* as it was constructed
C11_Testigo ==
  /\ EsPar("__sub__")
  /\ ~llamada.encadenada
  /\ llamada.self \in Construidas
  /\ llamada.other \in Construidas
  /\ resultado.estado = "ok"
  /\ resultado.valor.coordenadas # llamada.self.coordenadas
  /\ resultado.valor \notin Construidas

---------------------------------------------------------------------------
(* C12 *)

\* the call at hand is the single-point query in mode 'count' on a point and a
\* list of corridors
C12_Caso ==
  /\ llamada.op = "check_point_in_buffers"
  /\ llamada.modo = "count"
  /\ llamada.punto.clase = "tuple"
  /\ llamada.rutas_buffer.forma = "lista"
  /\ EsListaDeRutas(llamada.rutas_buffer)

\* C12: checkPointInCorridors(point, corridors, 'count') over M corridors
\* returns an integer in [0, M], the number of indices j for which
\* corridors[j].contains(point) is true.
C12_CuentaLosQueContienen ==
  C12_Caso =>
    LET M == Len(llamada.rutas_buffer.datos)
    IN  /\ resultado.estado = "ok"
        /\ resultado.clase = "int"
        /\ 0 <= resultado.valor /\ resultado.valor <= M
        /\ resultado.valor
             = Cardinality({j \in 1..M :
                              contains(llamada.rutas_buffer.datos[j],
                                       llamada.punto.valor)})

\* two corridors, one of which contains the point: the count is 1
C12_Testigo ==
  /\ C12_Caso
  /\ Len(llamada.rutas_buffer.datos) = 2
  /\ contains(llamada.rutas_buffer.datos[1], llamada.punto.valor)
  /\ ~contains(llamada.rutas_buffer.datos[2], llamada.punto.valor)
  /\ resultado = Ok("int", 1)

---------------------------------------------------------------------------
(* C13 *)

\* C13 (as claimed): in a construction from two or more points the smoothing
\* step runs only when the union of disks and quadrilaterals is one polygon
\* without holes; when the union has holes or several components, the raw
\* union, holes and components included, is stored as the Region.
C13_SuavizaSoloSinHuecos ==
  (/\ llamada.op = "__init__"
   /\ resultado.estado = "ok"
   /\ Len(resultado.valor.coordenadas) >= 2) =>
    LET self == resultado.valor
        area_buffer == unary_union(self.coordenadas, self.ancho_buffer)
        simple == area_buffer.tipo = "Polygon" /\ area_buffer.huecos = {}
    IN  /\ self.area.suavizado => simple
        /\ ~simple =>
             /\ self.area.celdas = area_buffer.celdas
             /\ self.area.huecos = area_buffer.huecos

---------------------------------------------------------------------------
(* C14 *)

\* C14 (as claimed): the stored point sequence of a - b is the stored sequence
\* of a with every point of b removed and the order of the others unchanged;
\* when a and b share no point it is the stored sequence of a.
C14_RestaConservaElOrden ==
  (EsPar("__sub__") /\ resultado.estado = "ok") =>
    /\ resultado.valor.coordenadas
         = Filtrar(llamada.self.coordenadas,
                   Rango(llamada.self.coordenadas) \ Rango(llamada.other.coordenadas))
    /\ (Rango(llamada.self.coordenadas) \cap Rango(llamada.other.coordenadas) = {})
         => resultado.valor.coordenadas = llamada.self.coordenadas

---------------------------------------------------------------------------
(* C15 *)

\* the call at hand is the batch query in mode 'summary' on points and corridors
C15_Caso ==
  /\ llamada.op = "check_points_in_buffers"
  /\ llamada.modo = "summary"
  /\ EsListaDePuntos(llamada.puntos)
  /\ EsListaDeRutas(llamada.rutas_buffer)

\* C15 (as claimed): in mode 'summary', for N >= 0 points and M >= 0 corridors,
\* points in all corridors <= points in at least one corridor <= N, and
\* corridors with all points <= corridors with at least one point <= M.
C15_ConteosEncadenados ==
  C15_Caso =>
    /\ resultado.estado = "ok"
    /\ resultado.valor.puntos_en_todas_rutas <= resultado.valor.puntos_en_alguna_ruta
    /\ resultado.valor.puntos_en_alguna_ruta <= resultado.valor.total_puntos
    /\ resultado.valor.rutas_con_todos_puntos <= resultado.valor.rutas_con_algun_punto
    /\ resultado.valor.rutas_con_algun_punto <= resultado.valor.total_rutas

\* C15 (amended): in mode 'summary', for N >= 0 points and M >= 0 corridors,
\* points in at least one corridor <= N and corridors with at least one point
\* <= M; points in all corridors <= points in at least one when M >= 1, and
\* corridors with all points <= corridors with at least one when N >= 1.  With
\* no corridor every point counts as in all corridors (N) and none as in at
\* least one (0); with no point every corridor counts as holding all points
\* (M) and none as holding at least one (0).
C15_ConteosEncadenadosSiNoVacio ==
  C15_Caso =>
    /\ resultado.estado = "ok"
    /\ LET v == resultado.valor
           N == v.total_puntos
           M == v.total_rutas
       IN  /\ 0 <= v.puntos_en_alguna_ruta /\ v.puntos_en_alguna_ruta <= N
           /\ 0 <= v.rutas_con_algun_punto /\ v.rutas_con_algun_punto <= M
           /\ 0 <= v.puntos_en_todas_rutas /\ v.puntos_en_todas_rutas <= N
           /\ 0 <= v.rutas_con_todos_puntos /\ v.rutas_con_todos_puntos <= M
           /\ M >= 1 => v.puntos_en_todas_rutas <= v.puntos_en_alguna_ruta
           /\ N >= 1 => v.rutas_con_todos_puntos <= v.rutas_con_algun_punto
           /\ M = 0 => (v.puntos_en_todas_rutas = N /\ v.puntos_en_alguna_ruta = 0)
           /\ N = 0 => (v.rutas_con_todos_puntos = M /\ v.rutas_con_algun_punto = 0)

\* three points, two corridors, the four counts all different from their bounds
\* or from one another: one point in both corridors, two in at least one
C15_Testigo ==
  /\ C15_Caso
  /\ resultado.estado = "ok"
  /\ resultado.valor.total_puntos = 3
  /\ resultado.valor.total_rutas = 2
  /\ resultado.valor.puntos_en_todas_rutas < resultado.valor.puntos_en_alguna_ruta
  /\ resultado.valor.puntos_en_alguna_ruta < 3
  /\ resultado.valor.rutas_con_todos_puntos < resultado.valor.rutas_con_algun_punto

---------------------------------------------------------------------------
(* C16 *)

\* C16 (as claimed): a + b and a - b have the smoothing resolution of a.
C16_ResolucionDelIzquierdo ==
  ((EsPar("__add__") \/ EsPar("__sub__")) /\ resultado.estado = "ok") =>
    resultado.valor.puntos_suavizado = llamada.self.puntos_suavizado

====
